---- MODULE Spec2Model ----
(***************************************************************************)
(* Pre-flight dependency checker of forked-u-onex.                         *)
(*                                                                         *)
(* DependencyChecker (dependency_checker.py, blocking subprocess.run) and  *)
(* AsyncDependencyChecker (async_preflight_tool.py, asyncio subprocesses   *)
(* under asyncio.gather) are modelled together; mode says which of the     *)
(* two classes serves the call in progress.                                *)
(*                                                                         *)
(* A Python string is a sequence of one-character strings.  A Python value *)
(* is a record [kind, truthy, chars]: kind is the name of its type, truthy *)
(* is bool(value), chars is the text of a str (empty for other types).     *)
(*                                                                         *)
(* The host is which of the four package-manager executables can be run;  *)
(* it is fixed for the length of a call.  What a running child answers and *)
(* whether it answers within the timeout is open at every probe.           *)
(*                                                                         *)
(* A check_system_package call is a frame that steps from one await (or    *)
(* blocking wait) to the next.  The synchronous frames run one after the   *)
(* other; the asynchronous ones are interleaved as the event loop runs     *)
(* them.  The order in which they end is recorded only for a caller that   *)
(* watches it (SpecGather).                                                *)
(***************************************************************************)
EXTENDS Integers, Sequences, FiniteSets, TLC

(* ----------------------------- bounds -------------------------------- *)

\* longest string handed to the validator on its own
MaxLen == 3
\* most names handed to one call of verify_dependencies, both lists together
\* (an argument that is no list counts as one name)
MaxNames == 2
\* the same for a call of verify_dependencies that the caller repeats
MaxRepeat == 1
\* longest string handed to a direct call of check_system_package when the
\* caller has not looked at the value
MaxArg == 2

(* --------------------------- Python values --------------------------- *)

\* characters of the pattern's class [a-zA-Z0-9._+-] (representatives)
NameChars == {"g", "3", ".", "_", "+", "-"}
\* characters str.strip() removes (representatives)
Whitespace == {" ", "\n", "\t"}
\* the backquote character (chr(96)), which cannot be written in a string here
Backquote == "BQ"
\* shell metacharacters and another character outside the class
OtherChars == {";", "|", "&", Backquote, "$", "/"}
Chars == NameChars \cup Whitespace \cup OtherChars

Str(s) == [kind |-> "str", truthy |-> Len(s) > 0, chars |-> s]
NoneVal == [kind |-> "NoneType", truthy |-> FALSE, chars |-> <<>>]
IntVal == [kind |-> "int", truthy |-> TRUE, chars |-> <<>>]
ZeroVal == [kind |-> "int", truthy |-> FALSE, chars |-> <<>>]
NonStrings == {NoneVal, IntVal, ZeroVal}

SeqsUpTo(S, n) == UNION {[1..k -> S] : k \in 0..n}
Strings == {Str(s) : s \in SeqsUpTo(Chars, MaxLen)}
Values == Strings \cup NonStrings

(* ------------------------ _validate_package_name --------------------- *)

RECURSIVE lstrip(_)
lstrip(s) ==
    IF Len(s) > 0 /\ Head(s) \in Whitespace THEN lstrip(Tail(s)) ELSE s

RECURSIVE rstrip(_)
rstrip(s) ==
    IF Len(s) > 0 /\ s[Len(s)] \in Whitespace
    THEN rstrip(SubSeq(s, 1, Len(s) - 1))
    ELSE s

\* mutant of strip: the name is matched as given
strip_nothing(s) == s

\* str.strip()
strip(s) == rstrip(lstrip(s))

\* s consists of one or more characters of the class: [a-zA-Z0-9._+-]+
ClassPlus(s) == Len(s) > 0 /\ \A i \in 1..Len(s) : s[i] \in NameChars

\* mutant of re_match: the pattern has lost its $, so a prefix may match
re_match_prefix(s) == \E k \in 1..Len(s) : ClassPlus(SubSeq(s, 1, k))

\* bool(re.match(pattern, s)) for pattern = ^[a-zA-Z0-9._+-]+$: without re.MULTILINE, $ matches
\* at the end of the string and also just before a newline that ends it
re_match(s) ==
    \/ ClassPlus(s)
    \/ /\ Len(s) > 0
       /\ s[Len(s)] = "\n"
       /\ ClassPlus(SubSeq(s, 1, Len(s) - 1))

\* mutant of _validate_package_name: the pattern is not matched, any string
\* that is not empty passes
_validate_package_name_unmatched(package_name) ==
    package_name.truthy /\ package_name.kind = "str"

_validate_package_name(package_name) ==
    IF ~package_name.truthy \/ package_name.kind # "str"
    THEN FALSE
    ELSE re_match(strip(package_name.chars))

(* ------------------------------ the host ----------------------------- *)

\* the four package managers in the order check_system_package tries them,
\* each with its executable and the fixed arguments before the package name
Backends ==
    << [exe |-> "dpkg", opts |-> <<"-s">>],
       [exe |-> "rpm",  opts |-> <<"-q">>],
       [exe |-> "apk",  opts |-> <<"info", "-e">>],
       [exe |-> "yum",  opts |-> <<"list", "installed">>] >>

NumBackends == Len(Backends)

\* the argument vector of the child process of backend b for package pkg
Argv(b, pkg) == [exe |-> Backends[b].exe, opts |-> Backends[b].opts, pkg |-> pkg]
NoArgv == [exe |-> "", opts |-> <<>>, pkg |-> <<>>]

\* the executable of a backend on the host: not on PATH, on PATH and runnable,
\* or such that executing it fails with an OSError other than
\* FileNotFoundError (PermissionError for a file that may not be executed;
\* errno E2BIG, for a package name longer than the kernel takes as one
\* argument, behaves the same)
ExeStates == {"absent", "present", "denied"}
\* the hosts: they do not change while a call runs.  No check gets past an
\* executable that cannot be executed, so hosts that differ only in the
\* executables after it are not told apart
Hosts ==
    {h \in [1..NumBackends -> ExeStates] :
        \A b \in 1..NumBackends :
            h[b] = "denied" => \A c \in (b + 1)..NumBackends : h[c] = "absent"}
NoHost == [b \in 1..NumBackends |-> "absent"]
\* the hosts on which every executable is either missing or can be run
PlainHosts == {h \in Hosts : \A b \in 1..NumBackends : h[b] # "denied"}

\* what creating the child process of an executable does: start it, or raise
SpawnOutcome(exe) ==
    IF exe = "present" THEN "started"
    ELSE IF exe = "absent" THEN "FileNotFoundError"
    ELSE "OSError"

\* exit statuses of a child that ends before the timeout
ExitCodes == {0, 1}

\* what importlib.util.find_spec(name) can do: return a spec or None, or raise
\* ValueError (a loaded module without __spec__); for a dotted name it resolves
\* a relative name (ImportError) and imports the parent package, which may be
\* missing (ModuleNotFoundError) and whose code may raise anything (RuntimeError
\* stands for every exception that is none of the three above)
FindSpecAny ==
    {"spec", "None", "ValueError", "ImportError", "ModuleNotFoundError", "RuntimeError"}
FindSpecOutcomes(name) ==
    IF \E i \in 1..Len(name) : name[i] = "."
    THEN FindSpecAny
    ELSE {"spec", "None", "ValueError"}

\* values callers hand over as package names
NamePool ==
    { Str(<<"g", "3">>), Str(<<" ", "g", "\n">>), Str(<<"g", ";">>), Str(<<>>), NoneVal }

\* values handed to check_system_package by callers that have not validated
\* them: any short string, and values of other types
AnyPool == {Str(s) : s \in SeqsUpTo(Chars, MaxArg)} \cup NonStrings

\* values callers hand over as names of Python packages
PyNamePool ==
    { Str(<<"g", "3">>), Str(<<"g", ".", "g">>), Str(<<"g", ";">>), NoneVal }

\* a Python argument of verify_dependencies: a list of values, or a value of
\* another type (None; a set, which can be iterated but is no sequence; a
\* tuple, which is a sequence but no list), whose items is what iterating it gives
NoArg == [kind |-> "NoneType", items |-> <<>>]
List(xs) == [kind |-> "list", items |-> xs]
NonLists == { [kind |-> "NoneType", items |-> <<>>],
              [kind |-> "set", items |-> <<Str(<<"g", "3">>)>>],
              [kind |-> "tuple", items |-> <<Str(<<"g", "3">>)>>] }
Lists(pool) == {List(xs) : xs \in SeqsUpTo(pool, MaxNames)} \cup NonLists
\* the size of an argument: the names of a list; one for any other value
Size(x) == IF x.kind = "list" THEN Len(x.items) ELSE 1
\* the pairs of arguments of verify_dependencies
VerifyArgs ==
    {a \in Lists(NamePool) \X Lists(PyNamePool) : Size(a[1]) + Size(a[2]) <= MaxNames}

(* ------------------------------- state ------------------------------- *)

VARIABLES
    call,       \* the entry point in progress: "idle", "validate", "check",
                \* "pycheck", "verify"
    mode,       \* "none", "sync" (DependencyChecker), "async" (AsyncDependencyChecker)
    host,       \* host[b]: the executable of backend b on the host of this call
    arg,        \* the value handed to _validate_package_name / check_system_package
    ret,        \* what that call returned: "none", "True", "False", "raised"
    lookup,     \* what find_spec did in a direct call of check_python_package
    args,       \* verify_dependencies: the two arguments as the caller gave them
    system_packages,    \* verify_dependencies: the first argument, after lines 145-146
    python_packages,    \* verify_dependencies: the second argument, after 147-148
    pc,         \* verify_dependencies: "none", "sys", "py", "report", "done", "raised"
    valid_sys_packages,
    valid_py_packages,
    tasks,      \* the check_system_package calls: one frame per checked name
    completion, \* the frames in the order in which they returned or raised, when
                \* the caller watches it (NotWatched when it does not)
    procs,      \* procs[t][b]: the child process of frame t for backend b
    missing_sys,
    missing_py,
    invalid_sys,
    invalid_py,
    py_results, \* what check_python_package did for the names checked so far
    out,        \* the lines printed by verify_dependencies
    prev        \* what a caller that repeats its calls saw of the call before

vars == <<call, mode, host, arg, ret, lookup, args, system_packages, python_packages, pc,
          valid_sys_packages, valid_py_packages, tasks, completion, procs,
          missing_sys, missing_py, invalid_sys, invalid_py, py_results, out, prev>>

verifyVars == <<lookup, args, system_packages, python_packages, valid_sys_packages,
                valid_py_packages, missing_py, invalid_sys, invalid_py, py_results,
                prev>>

\* the order in which the frames end is not followed
NotWatched == <<0>>

\* nothing was seen: no call before, or one that did not return
NoPrev == [mode |-> "none", host |-> NoHost, args |-> <<NoArg, NoArg>>,
           procs |-> <<>>, py_results |-> <<>>, lists |-> <<>>]

Init ==
    /\ call = "idle"
    /\ mode = "none"
    /\ host = NoHost
    /\ arg = NoneVal
    /\ ret = "none"
    /\ lookup = "none"
    /\ args = <<NoArg, NoArg>>
    /\ system_packages = <<>>
    /\ python_packages = <<>>
    /\ pc = "none"
    /\ valid_sys_packages = <<>>
    /\ valid_py_packages = <<>>
    /\ tasks = <<>>
    /\ completion = NotWatched
    /\ procs = <<>>
    /\ missing_sys = <<>>
    /\ missing_py = <<>>
    /\ invalid_sys = <<>>
    /\ invalid_py = <<>>
    /\ py_results = <<>>
    /\ out = <<>>
    /\ prev = NoPrev

Bool(b) == IF b THEN "True" ELSE "False"

\* a caller applies the validator to a value
Validate(v) ==
    /\ call = "idle"
    /\ call' = "validate"
    /\ arg' = v
    /\ ret' = Bool(_validate_package_name(v))
    /\ UNCHANGED <<mode, host, pc, tasks, completion, procs, missing_sys, out>>
    /\ UNCHANGED verifyVars

(* ------------------------ check_system_package ----------------------- *)

\* the frame of a call of check_system_package(name) that has not run yet
NewTask(name) == [name |-> name, pkg |-> <<>>, pc |-> "start", b |-> 1, result |-> "none"]

\* no child process: nothing was tried for this backend
NoProc == [st |-> "none", argv |-> NoArgv, n |-> 0, rc |-> -1, timedout |-> FALSE]
NoProcs == [b \in 1..NumBackends |-> NoProc]

\* the event loop lets coroutine t run: a coroutine runs on until it awaits
\* its child, so no other one is between two awaits; the coroutines of gather
\* take their first step in the order of the list, before the loop handles
\* the exit or the timeout of any child
Scheduled(t) ==
    /\ \A u \in 1..Len(tasks) : u # t => tasks[u].pc # "spawn"
    /\ tasks[t].pc = "start" => \A u \in 1..(t - 1) : tasks[u].pc # "start"
    /\ tasks[t].pc = "wait" => \A u \in 1..Len(tasks) : tasks[u].pc # "start"

\* frame t may take a step: the asynchronous frames all run under gather, the
\* synchronous ones one after the other, in the order of the list comprehension
Runnable(t) ==
    /\ call \in {"check", "verify"}
    /\ t \in 1..Len(tasks)
    /\ call = "verify" => pc = "sys"
    /\ mode = "sync" => \A u \in 1..(t - 1) : tasks[u].pc = "done"
    /\ mode = "async" => Scheduled(t)

\* a printed line: how it begins, the names it lists, the number it gives
Line(tag, names, count) == [line |-> tag, names |-> names, count |-> count]

\* the lines the same loop prints, for the first k results: one for each
\* result that is an exception
RECURSIVE ErrorLines(_, _, _)
ErrorLines(valid, results, k) ==
    IF k = 0 THEN <<>>
    ELSE LET before == ErrorLines(valid, results, k - 1)
         IN  IF results[k].pc = "raised"
             THEN Append(before, Line("Error checking", <<valid[k]>>, 0))
             ELSE before

\* mutant of Collect: the names are appended as their checks complete, the
\* check that completes now being the last one
RECURSIVE Collect_as_completed(_, _, _)
Collect_as_completed(valid, results, k) ==
    IF k = 0 THEN <<>>
    ELSE LET before == Collect_as_completed(valid, results, k - 1)
             t == IF k <= Len(completion) THEN completion[k]
                  ELSE CHOOSE u \in 1..Len(results) :
                           \A i \in 1..Len(completion) : completion[i] # u
         IN  IF results[t].pc = "raised" \/ results[t].result # "True"
             THEN Append(before, valid[t])
             ELSE before

\* mutant of Collect: each missing name is put in front of those found before
RECURSIVE Collect_newest_first(_, _, _)
Collect_newest_first(valid, results, k) ==
    IF k = 0 THEN <<>>
    ELSE LET before == Collect_newest_first(valid, results, k - 1)
         IN  IF results[k].pc = "raised" \/ results[k].result # "True"
             THEN <<valid[k]>> \o before
             ELSE before

\* the loop over enumerate(sys_results) after gather, for the first k results:
\* a name is missing when its result is an exception or is false
RECURSIVE Collect(_, _, _)
Collect(valid, results, k) ==
    IF k = 0 THEN <<>>
    ELSE LET before == Collect(valid, results, k - 1)
         IN  IF results[k].pc = "raised" THEN Append(before, valid[k])
             ELSE IF results[k].result # "True" THEN Append(before, valid[k])
             ELSE before

\* asynchronous class: gather(*sys_tasks, return_exceptions=True) returns when
\* every coroutine has returned or raised, results being what they left; then
\* missing_sys is built from the results, and a line is printed for each
\* exception among them
Gathered(results) ==
    IF \A t \in 1..Len(results) : results[t].pc \in {"done", "raised"}
    THEN /\ missing_sys' = Collect(valid_sys_packages, results, Len(results))
         /\ out' = ErrorLines(valid_sys_packages, results, Len(results))
         /\ pc' = "py"
    ELSE UNCHANGED <<missing_sys, out, pc>>

\* check_system_package returns res from frame t (now in state task)
Finish(t, task, res) ==
    LET results == [tasks EXCEPT ![t] = [task EXCEPT !.pc = "done", !.result = Bool(res)]]
    IN  /\ tasks' = results
        /\ completion' = IF completion = NotWatched THEN completion
                          ELSE Append(completion, t)
        /\ IF call = "check"
           THEN ret' = Bool(res) /\ UNCHANGED <<missing_sys, out, pc>>
           ELSE IF mode = "sync"
           THEN /\ missing_sys' = IF ~res THEN Append(missing_sys, valid_sys_packages[t])
                                  ELSE missing_sys
                /\ UNCHANGED <<ret, out, pc>>
           ELSE Gathered(results) /\ UNCHANGED ret

\* an exception leaves check_system_package from frame t: to the caller of a
\* direct call, out of the list comprehension of the synchronous
\* verify_dependencies (which it leaves too), into the results of gather
Raise(t, exc) ==
    LET results == [tasks EXCEPT ![t].pc = "raised", ![t].result = exc]
    IN  /\ tasks' = results
        /\ completion' = IF completion = NotWatched THEN completion
                          ELSE Append(completion, t)
        /\ IF call = "check"
           THEN ret' = "raised" /\ UNCHANGED <<missing_sys, out, pc>>
           ELSE IF mode = "sync"
           THEN pc' = "raised" /\ UNCHANGED <<ret, missing_sys, out>>
           ELSE Gathered(results) /\ UNCHANGED ret

\* the except clause of each of the four try blocks
Caught(exc) == exc \in {"FileNotFoundError", "TimeoutExpired"}

\* mutant of ExitVerdict: the comparison is inverted
ExitVerdict_inverted(returncode) == returncode # 0

\* mutant of ExitVerdict: a child that ran to its end counts as installed
ExitVerdict_ignored(returncode) == TRUE

\* return result.returncode == 0
ExitVerdict(returncode) == returncode = 0

\* mutant of Exhausted: a package no backend could be asked about is present
Exhausted_present == TRUE

\* the verdict when the last try block was left through its except clause
Exhausted == FALSE

\* mutant of Fallthrough: the next try block is skipped
Fallthrough_skipping(t, task) ==
    IF task.b + 1 < NumBackends
    THEN /\ tasks' = [tasks EXCEPT ![t] = [task EXCEPT !.pc = "spawn", !.b = task.b + 2]]
         /\ UNCHANGED <<ret, missing_sys, pc, out, completion>>
    ELSE Finish(t, task, Exhausted)

\* the try block of backend task.b was left through pass: on to the next try
\* block, or to the final return
Fallthrough(t, task) ==
    IF task.b < NumBackends
    THEN /\ tasks' = [tasks EXCEPT ![t] = [task EXCEPT !.pc = "spawn", !.b = task.b + 1]]
         /\ UNCHANGED <<ret, missing_sys, pc, out, completion>>
    ELSE Finish(t, task, Exhausted)

\* lines 57-62: the validation and the strip
CheckEnter(t) ==
    /\ Runnable(t)
    /\ tasks[t].pc = "start"
    /\ IF ~_validate_package_name(tasks[t].name)
       THEN Finish(t, tasks[t], FALSE)
       ELSE /\ tasks' = [tasks EXCEPT ![t].pc = "spawn",
                                      ![t].pkg = strip(tasks[t].name.chars)]
            /\ UNCHANGED <<ret, missing_sys, pc, out, completion>>
    /\ UNCHANGED <<call, mode, host, arg, procs>>
    /\ UNCHANGED verifyVars

\* the child process is created (subprocess.run up to Popen,
\* asyncio.create_subprocess_exec), or creating it raises
Spawn(t) ==
    /\ Runnable(t)
    /\ tasks[t].pc = "spawn"
    /\ LET b == tasks[t].b
           argv == Argv(b, tasks[t].pkg)
           o == SpawnOutcome(host[b])
       IN  IF o = "started"
           THEN /\ procs' = [procs EXCEPT ![t][b] =
                      [@ EXCEPT !.st = "running", !.argv = argv, !.n = @ + 1]]
                /\ tasks' = [tasks EXCEPT ![t].pc = "wait"]
                /\ UNCHANGED <<ret, missing_sys, pc, out, completion>>
           ELSE /\ procs' = [procs EXCEPT ![t][b] =
                      [@ EXCEPT !.st = IF o = "FileNotFoundError" THEN "notfound"
                                       ELSE "error",
                                !.argv = argv]]
                /\ IF Caught(o) THEN Fallthrough(t, tasks[t]) ELSE Raise(t, o)
    /\ UNCHANGED <<call, mode, host, arg>>
    /\ UNCHANGED verifyVars

\* what is left of a child whose wait timed out: subprocess.run kills it and
\* waits for it before it raises TimeoutExpired; asyncio.wait_for cancels the
\* wait and raises TimeoutError, and nothing kills the child: it is left
\* running (whether it ends by itself later is not followed)
AfterTimeout(m, proc) ==
    IF m = "sync"
    THEN [proc EXCEPT !.st = "killed", !.timedout = TRUE]
    ELSE [proc EXCEPT !.timedout = TRUE]

\* the child exits with status rc before the timeout
WaitExit(t, rc) ==
    /\ Runnable(t)
    /\ tasks[t].pc = "wait"
    /\ procs' = [procs EXCEPT ![t][tasks[t].b] = [@ EXCEPT !.st = "exited", !.rc = rc]]
    /\ Finish(t, tasks[t], ExitVerdict(rc))
    /\ UNCHANGED <<call, mode, host, arg>>
    /\ UNCHANGED verifyVars

\* the timeout of 10 seconds passes first
WaitTimeout(t) ==
    /\ Runnable(t)
    /\ tasks[t].pc = "wait"
    /\ procs' = [procs EXCEPT ![t][tasks[t].b] = AfterTimeout(mode, @)]
    /\ IF Caught("TimeoutExpired")
       THEN Fallthrough(t, tasks[t])
       ELSE Raise(t, "TimeoutExpired")
    /\ UNCHANGED <<call, mode, host, arg>>
    /\ UNCHANGED verifyVars

\* a direct call of check_system_package(v) of either class, on host h
check_system_package(m, h, v) ==
    /\ call = "idle"
    /\ call' = "check"
    /\ mode' = m
    /\ host' = h
    /\ arg' = v
    /\ tasks' = <<NewTask(v)>>
    /\ procs' = <<NoProcs>>
    /\ UNCHANGED <<ret, pc, missing_sys, out, completion>>
    /\ UNCHANGED verifyVars

(* ------------------------ check_python_package ----------------------- *)

\* the except clause around importlib.util.find_spec
PyCaught(exc) == exc \in {"ImportError", "ValueError", "ModuleNotFoundError"}

\* check_python_package(package_name) when find_spec does o (one of
\* FindSpecOutcomes(strip(package_name.chars)) for a valid name): "True",
\* "False", or "raised" when an exception leaves the call
check_python_package(package_name, o) ==
    IF ~_validate_package_name(package_name) THEN "False"
    ELSE IF o = "spec" THEN "True"
    ELSE IF o = "None" THEN "False"
    ELSE IF PyCaught(o) THEN "False"
    ELSE "raised"

\* a direct call of check_python_package(v) of either class; find_spec, when
\* the call gets that far, does o
CheckPython(v, o) ==
    /\ call = "idle"
    /\ IF _validate_package_name(v)
       THEN o \in FindSpecOutcomes(strip(v.chars))
       ELSE o = "none"
    /\ call' = "pycheck"
    /\ arg' = v
    /\ lookup' = o
    /\ ret' = check_python_package(v, o)
    /\ UNCHANGED <<mode, host, args, system_packages, python_packages, pc,
                   valid_sys_packages, valid_py_packages, tasks, completion, procs,
                   missing_sys, missing_py, invalid_sys, invalid_py, py_results, out,
                   prev>>

(* ------------------------- verify_dependencies ----------------------- *)

\* xs without the later occurrences of its elements
RECURSIVE Unique(_)
Unique(xs) ==
    IF xs = <<>> THEN <<>>
    ELSE LET front == Unique(SubSeq(xs, 1, Len(xs) - 1))
             last == xs[Len(xs)]
         IN  IF \E i \in 1..Len(front) : front[i] = last THEN front
             ELSE Append(front, last)

\* mutant of ValidOf: a name is kept once however often it occurs
ValidOf_unique(xs) == Unique(SelectSeq(xs, _validate_package_name))

\* mutant of ValidOf: the names are not filtered
ValidOf_all(xs) == xs

\* [pkg for pkg in xs if _validate_package_name(pkg)]
ValidOf(xs) == SelectSeq(xs, _validate_package_name)

\* mutant of InvalidOf: the condition of the comprehension is lost
InvalidOf_all(xs) == xs

\* [pkg for pkg in xs if not _validate_package_name(pkg)]
InvalidOf(xs) == SelectSeq(xs, LAMBDA pkg : ~_validate_package_name(pkg))

\* mutant of Normalise: whatever can be iterated is iterated
Normalise_iterable(x) == x.items

\* if not isinstance(x, list): x = []
Normalise(x) == IF x.kind = "list" THEN x.items ELSE <<>>

\* the call: the arguments are normalised, the valid system names are filtered
\* and (asynchronous class) so are the valid Python names and the coroutines of
\* all system checks are created; h is the host the call runs on
verify_dependencies(m, h, sp, pp) ==
    /\ call = "idle"
    /\ call' = "verify"
    /\ mode' = m
    /\ host' = h
    /\ args' = <<sp, pp>>
    /\ system_packages' = Normalise(sp)
    /\ python_packages' = Normalise(pp)
    /\ valid_sys_packages' = ValidOf(Normalise(sp))
    /\ valid_py_packages' = IF m = "async" THEN ValidOf(Normalise(pp)) ELSE <<>>
    /\ tasks' = [t \in 1..Len(ValidOf(Normalise(sp))) |->
                    NewTask(ValidOf(Normalise(sp))[t])]
    /\ procs' = [t \in 1..Len(ValidOf(Normalise(sp))) |-> NoProcs]
    /\ pc' = IF m = "async" /\ ValidOf(Normalise(sp)) = <<>> THEN "py" ELSE "sys"
    /\ UNCHANGED <<arg, ret, lookup, missing_sys, missing_py, invalid_sys,
                   invalid_py, py_results, out, prev>>

\* synchronous class: the list comprehension over valid_sys_packages is through;
\* the valid Python names are filtered
SysChecked ==
    /\ call = "verify" /\ mode = "sync" /\ pc = "sys"
    /\ \A t \in 1..Len(tasks) : tasks[t].pc = "done"
    /\ valid_py_packages' = ValidOf(python_packages)
    /\ pc' = "py"
    /\ UNCHANGED <<call, mode, host, arg, ret, lookup, args, completion, prev,
                   system_packages, python_packages,
                   valid_sys_packages, tasks, procs, missing_sys, missing_py,
                   invalid_sys, invalid_py, py_results, out>>

\* one round of [pkg for pkg in valid_py_packages if not check_python_package(pkg)]
CheckPy(o) ==
    /\ call = "verify" /\ pc = "py"
    /\ Len(py_results) < Len(valid_py_packages)
    /\ LET pkg == valid_py_packages[Len(py_results) + 1]
           res == check_python_package(pkg, o)
       IN  /\ o \in FindSpecOutcomes(strip(pkg.chars))
           /\ py_results' = Append(py_results, res)
           /\ missing_py' = IF res = "False" THEN Append(missing_py, pkg) ELSE missing_py
           /\ pc' = IF res = "raised" THEN "raised" ELSE pc
    /\ UNCHANGED <<call, mode, host, arg, ret, lookup, args, completion, prev,
                   system_packages, python_packages,
                   valid_sys_packages, valid_py_packages, tasks, procs, missing_sys,
                   invalid_sys, invalid_py, out>>

\* mutant of Summary: the else of the two status lines is lost, so that the
\* confirmation lines are always printed
Summary_always_confirming(msys, mpy, isys, ipy) ==
    (IF msys # <<>> THEN <<Line("Missing system packages", msys, 0)>> ELSE <<>>)
    \o <<Line("All system packages installed", <<>>, 0)>>
    \o (IF mpy # <<>> THEN <<Line("Missing Python packages", mpy, 0)>> ELSE <<>>)
    \o <<Line("All Python packages installed", <<>>, 0)>>
    \o (IF msys # <<>> \/ mpy # <<>>
        THEN <<Line("Skipping already installed packages", <<>>, 0)>> ELSE <<>>)
    \o (IF isys # <<>> \/ ipy # <<>>
        THEN <<Line("Skipped invalid package names", <<>>, Len(isys \o ipy))>> ELSE <<>>)

\* the lines printed under "Report results" and "Report any invalid package names"
Summary(msys, mpy, isys, ipy) ==
    (IF msys # <<>> THEN <<Line("Missing system packages", msys, 0)>>
                    ELSE <<Line("All system packages installed", <<>>, 0)>>)
    \o (IF mpy # <<>> THEN <<Line("Missing Python packages", mpy, 0)>>
                      ELSE <<Line("All Python packages installed", <<>>, 0)>>)
    \o (IF msys # <<>> \/ mpy # <<>>
        THEN <<Line("Skipping already installed packages", <<>>, 0)>> ELSE <<>>)
    \o (IF isys # <<>> \/ ipy # <<>>
        THEN <<Line("Skipped invalid package names", <<>>, Len(isys \o ipy))>> ELSE <<>>)

\* the Python names are through: the report is printed and the call returns
Report ==
    /\ call = "verify" /\ pc = "py"
    /\ Len(py_results) = Len(valid_py_packages)
    /\ invalid_sys' = InvalidOf(system_packages)
    /\ invalid_py' = InvalidOf(python_packages)
    /\ out' = out \o Summary(missing_sys, missing_py,
                              InvalidOf(system_packages), InvalidOf(python_packages))
    /\ pc' = "done"
    /\ UNCHANGED <<call, mode, host, arg, ret, lookup, args, completion, prev,
                   system_packages, python_packages,
                   valid_sys_packages, valid_py_packages, tasks, procs, missing_sys,
                   missing_py, py_results>>

\* a call has ended: it returned, or an exception left it
Returning ==
    \/ call = "validate"
    \/ call = "pycheck"
    \/ call = "check" /\ ret # "none"
    \/ call = "verify" /\ pc \in {"done", "raised"}

\* mutant of Reset: the missing lists are attributes of the class, not locals
Reset_keeping_lists ==
    /\ call' = "idle"
    /\ mode' = "none"
    /\ host' = NoHost
    /\ arg' = NoneVal
    /\ ret' = "none"
    /\ lookup' = "none"
    /\ args' = <<NoArg, NoArg>>
    /\ system_packages' = <<>>
    /\ python_packages' = <<>>
    /\ pc' = "none"
    /\ valid_sys_packages' = <<>>
    /\ valid_py_packages' = <<>>
    /\ tasks' = <<>>
    /\ completion' = NotWatched
    /\ procs' = <<>>
    /\ invalid_sys' = <<>>
    /\ invalid_py' = <<>>
    /\ py_results' = <<>>
    /\ out' = <<>>
    /\ UNCHANGED <<missing_sys, missing_py>>

\* the frame of the call is gone: all its state was local (both classes have
\* static methods only and no attributes)
Reset ==
    /\ call' = "idle"
    /\ mode' = "none"
    /\ host' = NoHost
    /\ arg' = NoneVal
    /\ ret' = "none"
    /\ lookup' = "none"
    /\ args' = <<NoArg, NoArg>>
    /\ system_packages' = <<>>
    /\ python_packages' = <<>>
    /\ pc' = "none"
    /\ valid_sys_packages' = <<>>
    /\ valid_py_packages' = <<>>
    /\ tasks' = <<>>
    /\ completion' = NotWatched
    /\ procs' = <<>>
    /\ missing_sys' = <<>>
    /\ missing_py' = <<>>
    /\ invalid_sys' = <<>>
    /\ invalid_py' = <<>>
    /\ py_results' = <<>>
    /\ out' = <<>>

\* control is back at the caller; nothing is kept from the call
Return ==
    /\ Returning
    /\ Reset
    /\ UNCHANGED prev

\* what its caller has seen of a call of verify_dependencies that returned:
\* the class, the host and the arguments, how each probe and each lookup
\* ended, and the four lists
Observed ==
    [mode |-> mode, host |-> host, args |-> args, procs |-> procs,
     py_results |-> py_results,
     lists |-> <<missing_sys, missing_py, invalid_sys, invalid_py>>]

\* control is back at a caller that makes each call twice: it remembers the
\* first call of a pair when that call returned
ReturnObserved ==
    /\ Returning
    /\ Reset
    /\ prev' = IF call = "verify" /\ pc = "done" /\ prev = NoPrev THEN Observed ELSE NoPrev

\* the entry points, each called with any of its arguments
CallValidate == call = "idle" /\ \E v \in Values : Validate(v)
CallCheck ==
    call = "idle" /\ \E m \in {"sync", "async"}, h \in Hosts, v \in NamePool :
                        check_system_package(m, h, v)
\* a direct call of check_system_package with a value nobody has validated
CallCheckAny ==
    call = "idle" /\ \E m \in {"sync", "async"}, h \in Hosts, v \in AnyPool :
                        check_system_package(m, h, v)
CallCheckPython ==
    call = "idle" /\ \E v \in Values, o \in FindSpecAny \cup {"none"} : CheckPython(v, o)
CallVerify ==
    call = "idle" /\ \E m \in {"sync", "async"}, h \in Hosts, a \in VerifyArgs :
                        verify_dependencies(m, h, a[1], a[2]) /\ UNCHANGED completion
\* a call of verify_dependencies of either class on a host where each probe
\* can only exit, find no executable or time out
CallVerifyPlain ==
    call = "idle" /\ \E m \in {"sync", "async"}, h \in PlainHosts, a \in VerifyArgs :
                        verify_dependencies(m, h, a[1], a[2]) /\ UNCHANGED completion
\* a call of the asynchronous verify_dependencies by a caller that watches
\* the order in which the checks complete
CallVerifyWatched ==
    call = "idle" /\ \E h \in Hosts, a \in VerifyArgs :
                        verify_dependencies("async", h, a[1], a[2]) /\ completion' = <<>>

\* the steps of the check_system_package frames
CheckStep ==
    \/ \E t \in 1..Len(tasks) : CheckEnter(t)
    \/ \E t \in 1..Len(tasks) : Spawn(t)
    \/ \E t \in 1..Len(tasks), rc \in ExitCodes : WaitExit(t, rc)
    \/ \E t \in 1..Len(tasks) : WaitTimeout(t)

NextValidate ==
    \/ CallValidate
    \/ Return

NextCheck ==
    \/ CallCheck
    \/ CheckStep
    \/ Return

\* the arguments of a call of verify_dependencies that is repeated
RepeatArgs == {a \in VerifyArgs : Size(a[1]) + Size(a[2]) <= MaxRepeat}
\* the first call of a pair, and the second: the same class, host and arguments
CallVerifyFirst ==
    (call = "idle" /\ prev = NoPrev)
        /\ \E m \in {"sync", "async"}, h \in Hosts, a \in RepeatArgs :
              verify_dependencies(m, h, a[1], a[2]) /\ UNCHANGED completion
CallVerifyAgain ==
    (call = "idle" /\ prev # NoPrev)
        /\ verify_dependencies(prev.mode, prev.host, prev.args[1], prev.args[2])
        /\ UNCHANGED completion

NextPython ==
    \/ CallCheckPython
    \/ Return

NextVerify ==
    \/ CallVerify
    \/ CheckStep
    \/ SysChecked
    \/ \E o \in FindSpecAny : CheckPy(o)
    \/ Report
    \/ Return

NextGather ==
    \/ CallVerifyWatched
    \/ CheckStep
    \/ \E o \in FindSpecAny : CheckPy(o)
    \/ Report
    \/ Return

NextFourWays ==
    \/ CallVerifyPlain
    \/ CheckStep
    \/ SysChecked
    \/ \E o \in FindSpecAny : CheckPy(o)
    \/ Report
    \/ Return

NextDirect ==
    \/ CallCheckAny
    \/ CheckStep
    \/ Return

NextTwice ==
    \/ CallVerifyFirst
    \/ CallVerifyAgain
    \/ CheckStep
    \/ SysChecked
    \/ \E o \in FindSpecAny : CheckPy(o)
    \/ Report
    \/ ReturnObserved

Next == NextValidate \/ NextCheck \/ NextPython \/ NextVerify \/ NextGather \/ NextFourWays \/ NextDirect \/ NextTwice

\* every entry point
Spec == Init /\ [][Next]_vars
\* callers of _validate_package_name alone
SpecValidate == Init /\ [][NextValidate]_vars
\* direct callers of check_system_package
SpecCheck == Init /\ [][NextCheck]_vars
\* direct callers of check_python_package
SpecPython == Init /\ [][NextPython]_vars
\* callers of verify_dependencies
SpecVerify == Init /\ [][NextVerify]_vars
\* the steps of a call in progress: the interpreter and the event loop keep
\* running what can run, and the child of every probe exits or has its
\* timeout fire
Progress ==
    \/ CheckStep
    \/ SysChecked
    \/ \E o \in FindSpecAny : CheckPy(o)
    \/ Report
    \/ Return
\* callers of verify_dependencies, every call running on to its end
SpecVerifyFair == SpecVerify /\ WF_vars(Progress)
\* callers of the asynchronous verify_dependencies that watch its checks
SpecGather == Init /\ [][NextGather]_vars
\* callers of verify_dependencies of either class on hosts without an
\* executable that cannot be executed
SpecFourWays == Init /\ [][NextFourWays]_vars
\* direct callers of check_system_package with values of any kind
SpecDirect == Init /\ [][NextDirect]_vars
\* callers that make each call of verify_dependencies twice
SpecTwice == Init /\ [][NextTwice]_vars

(* ============================== claims =============================== *)

HasAny(s, S) == \E i \in 1..Len(s) : s[i] \in S
Blank == {" ", "\n", "\t"}
ShellMeta == {";", "|", "&", Backquote, "$"}
\* a blank with a character that is no blank somewhere before it and after it
InnerBlank(s) ==
    \E i, j, k \in 1..Len(s) :
        i < j /\ j < k /\ s[i] \notin Blank /\ s[j] \in Blank /\ s[k] \notin Blank
\* s is blanks, then one or more characters of [A-Za-z0-9._+-], then blanks
PaddedName(s) ==
    \E i, j \in 1..Len(s) :
        /\ i <= j
        /\ \A k \in 1..Len(s) :
              IF k < i \/ k > j THEN s[k] \in Blank
              ELSE s[k] \in {"g", "3", ".", "_", "+", "-"}

\* C2 as stated: the validator returns False for the empty string, for every
\* value that is no string, and for every string with one of ; | & backquote $
\* space newline tab anywhere in it
C2_Original ==
    call = "validate" =>
        ((arg.kind # "str" \/ arg.chars = <<>> \/ HasAny(arg.chars, ShellMeta \cup Blank))
            => ret = "False")

\* C2 as amended: the validator returns False for the empty string, for every
\* value that is no string, for every string with one of ; | & backquote $
\* anywhere in it, for every string of spaces, newlines and tabs only, and for
\* every string with a space, newline or tab between two characters that are
\* none of these three
C2_Rejects ==
    call = "validate" =>
        ((arg.kind # "str" \/ HasAny(arg.chars, ShellMeta)
             \/ (\A i \in 1..Len(arg.chars) : arg.chars[i] \in Blank)
             \/ InnerBlank(arg.chars))
            => ret = "False")

C2_Witness ==
    call = "validate" /\ arg = Str(<<"g", " ", "g">>) /\ ret = "False"

\* C3: the validator returns True for every non-empty string whose trimmed
\* form has at least one character and only characters of [A-Za-z0-9._+-]
C3_Accepts ==
    (call = "validate" /\ arg.kind = "str" /\ PaddedName(arg.chars)) => ret = "True"

C3_Witness ==
    call = "validate" /\ arg = Str(<<" ", "g", "\n">>) /\ ret = "True"

Frames == 1..Len(tasks)
BackendIds == 1..NumBackends
Elems(xs) == {xs[i] : i \in 1..Len(xs)}
\* the probe of this backend ended as unavailable: no executable, or timed out
Unavailable(p) == p.st = "notfound" \/ p.timedout
\* no child was created, and no attempt made, for the backends after b
NoneAfter(t, b) ==
    \A c \in BackendIds : c > b => (procs[t][c].st = "none" /\ procs[t][c].n = 0)

\* C1: in verify_dependencies a system name that fails the validator is never
\* the package argument of a child process (started or attempted), is never in
\* missing_sys, and is in invalid_sys when the call has returned, wherever it
\* stands in the list
C1_InvalidNeverExecuted ==
    call = "verify" =>
        \A i \in 1..Len(system_packages) :
            ~_validate_package_name(system_packages[i]) =>
                /\ \A t \in Frames, b \in BackendIds :
                      (procs[t][b].st # "none" /\ system_packages[i].kind = "str")
                          => procs[t][b].argv.pkg # system_packages[i].chars
                /\ \A t \in Frames : tasks[t].name # system_packages[i]
                /\ system_packages[i] \notin Elems(missing_sys)
                /\ pc = "done" => system_packages[i] \in Elems(invalid_sys)

C1_Witness ==
    /\ call = "verify" /\ pc = "done"
    /\ system_packages = <<Str(<<"g", ";">>), Str(<<"g", "3">>)>>
    /\ procs[1][1].n = 1
    /\ invalid_sys = <<Str(<<"g", ";">>)>>
    /\ missing_sys = <<Str(<<"g", "3">>)>>

\* C4: in check_system_package, when the child of a backend exits with
\* status 0 the call has returned True and no later backend was tried
C4_ExitZeroPresent ==
    \A t \in Frames, b \in BackendIds :
        (procs[t][b].st = "exited" /\ procs[t][b].rc = 0) =>
            /\ tasks[t].pc = "done" /\ tasks[t].result = "True"
            /\ call = "check" => ret = "True"
            /\ NoneAfter(t, b)

C4_Witness ==
    \E t \in Frames :
        /\ procs[t][1].timedout
        /\ procs[t][2].st = "exited" /\ procs[t][2].rc = 0
        /\ tasks[t].result = "True"

\* C5: in check_system_package, when the child of a backend exits with a
\* status other than 0 the call has returned False and no later backend was tried
C5_ExitNonzeroMissing ==
    \A t \in Frames, b \in BackendIds :
        (procs[t][b].st = "exited" /\ procs[t][b].rc # 0) =>
            /\ tasks[t].pc = "done" /\ tasks[t].result = "False"
            /\ call = "check" => ret = "False"
            /\ NoneAfter(t, b)

C5_Witness ==
    \E t \in Frames :
        /\ procs[t][1].st = "exited" /\ procs[t][1].rc = 1
        /\ tasks[t].result = "False"
        /\ procs[t][2].n = 0

\* C6: a check whose four backends were all unavailable returns False, and a
\* check returns True only if the child of some backend exited with status 0
C6_UnavailableMissing ==
    \A t \in Frames :
        /\ (tasks[t].pc = "done" /\ \A b \in BackendIds : Unavailable(procs[t][b]))
              => tasks[t].result = "False"
        /\ tasks[t].result = "True"
              => \E b \in BackendIds : procs[t][b].st = "exited" /\ procs[t][b].rc = 0

C6_Witness ==
    \E t \in Frames :
        /\ tasks[t].pc = "done" /\ tasks[t].result = "False"
        /\ \A b \in BackendIds : Unavailable(procs[t][b])
        /\ procs[t][1].st = "notfound" /\ procs[t][4].timedout

\* C7: check_system_package never raises: no exception leaves a call
C7_NeverRaises ==
    /\ \A t \in Frames : tasks[t].pc # "raised"
    /\ call = "check" => ret # "raised"

\* C8: no child whose wait timed out is still running, when the next backend
\* is tried, when the check returns and when verify_dependencies returns
C8_NoTimedOutChildAlive ==
    \A t \in Frames, b \in BackendIds :
        procs[t][b].timedout => procs[t][b].st # "running"

SomeCheckRaised ==
    \/ \E t \in Frames : tasks[t].pc = "raised"
    \/ \E i \in 1..Len(py_results) : py_results[i] = "raised"

\* C9: in verify_dependencies an exception raised by the check of one name
\* does not end the call: the name is reported missing, and every valid name
\* of both kinds has been checked when the call returns
C9_NoCheckAbortsBatch ==
    call = "verify" =>
        /\ SomeCheckRaised => pc # "raised"
        /\ pc = "done" =>
              /\ \A t \in Frames : tasks[t].pc \in {"done", "raised"}
              /\ Len(py_results) = Len(valid_py_packages)
              /\ \A t \in Frames :
                    tasks[t].pc = "raised" => valid_sys_packages[t] \in Elems(missing_sys)
              /\ \A i \in 1..Len(py_results) :
                    py_results[i] = "raised" => valid_py_packages[i] \in Elems(missing_py)

\* C10: verify_dependencies never raises, and verify_dependencies([], [])
\* returns with its four lists empty
C10_VerifyNeverRaises ==
    call = "verify" =>
        /\ pc # "raised"
        /\ (pc = "done" /\ system_packages = <<>> /\ python_packages = <<>>) =>
              (missing_sys = <<>> /\ missing_py = <<>>
                 /\ invalid_sys = <<>> /\ invalid_py = <<>>)

\* the types that are sequences among the types of the arguments
SequenceKinds == {"list", "tuple"}
\* the argument other (a list) of kind names was processed as always: its
\* items are the names of the call, and once the call has returned each of
\* them was either checked or counted as invalid
ProcessedNormally(other, names, checked, invalid) ==
    other.kind = "list" =>
        /\ names = other.items
        /\ pc = "done" => checked + Len(invalid) = Len(other.items)

\* C11: in verify_dependencies an argument that is no sequence counts as the
\* empty list: no name from it is validated, checked, reported missing or
\* counted as invalid, and the other argument is processed as always
C11_NonSequenceIsEmpty ==
    call = "verify" =>
        /\ args[1].kind \notin SequenceKinds =>
              /\ system_packages = <<>> /\ valid_sys_packages = <<>>
              /\ tasks = <<>> /\ procs = <<>>
              /\ missing_sys = <<>> /\ invalid_sys = <<>>
              /\ ProcessedNormally(args[2], python_packages, Len(py_results), invalid_py)
        /\ args[2].kind \notin SequenceKinds =>
              /\ python_packages = <<>> /\ valid_py_packages = <<>>
              /\ py_results = <<>>
              /\ missing_py = <<>> /\ invalid_py = <<>>
              /\ ProcessedNormally(args[1], system_packages, Len(tasks), invalid_sys)

C11_Witness ==
    /\ call = "verify" /\ pc = "done"
    /\ args[1].kind = "set" /\ args[1].items # <<>>
    /\ args[2] = List(<<Str(<<"g", "3">>)>>)
    /\ missing_py = <<Str(<<"g", "3">>)>>
    /\ missing_sys = <<>> /\ invalid_sys = <<>>

\* the check of frame t ended without finding the package
FoundMissing(t) == tasks[t].pc = "raised" \/ tasks[t].result # "True"
\* the names at those of the first k positions of names that are in S
RECURSIVE NamesAt(_, _, _)
NamesAt(names, S, k) ==
    IF k = 0 THEN <<>>
    ELSE IF k \in S THEN Append(NamesAt(names, S, k - 1), names[k])
    ELSE NamesAt(names, S, k - 1)
\* xs is the names at the positions S of names, in the order of the positions
AtPositions(xs, names, S) == xs = NamesAt(names, S, Len(names))

\* C12: in the asynchronous verify_dependencies, once gather has returned,
\* missing_sys holds the valid system names whose check did not find the
\* package, in the order of their positions in the filtered input, whatever
\* the order in which the checks completed
C12_MissingInInputOrder ==
    (call = "verify" /\ mode = "async" /\ pc \in {"py", "done", "raised"}) =>
        AtPositions(missing_sys, valid_sys_packages, {t \in Frames : FoundMissing(t)})

C12_Witness ==
    /\ call = "verify" /\ mode = "async" /\ pc = "done"
    /\ valid_sys_packages = <<Str(<<"g", "3">>), Str(<<" ", "g", "\n">>)>>
    /\ completion = <<2, 1>>
    /\ missing_sys = valid_sys_packages

\* xs is a subsequence of ys
RECURSIVE IsSubseq(_, _)
IsSubseq(xs, ys) ==
    IF xs = <<>> THEN TRUE
    ELSE IF ys = <<>> THEN FALSE
    ELSE IF Head(xs) = Head(ys) THEN IsSubseq(Tail(xs), Tail(ys))
    ELSE IsSubseq(xs, Tail(ys))
\* the positions of names that pass the validator
ValidPositions(names) == {i \in 1..Len(names) : _validate_package_name(names[i])}
\* valid and invalid split names by the validator, keeping order and duplicates
Partitioned(names, valid, invalid) ==
    /\ AtPositions(valid, names, ValidPositions(names))
    /\ AtPositions(invalid, names, (1..Len(names)) \ ValidPositions(names))

\* C13: verify_dependencies splits each list into the names that pass the
\* validator and those that do not, in the order of the list and with its
\* duplicates; there is one check per occurrence of a valid name, and each
\* missing list is a subsequence of the valid list of its kind
C13_PartitionKeepsOrderAndDuplicates ==
    call = "verify" =>
        /\ AtPositions(valid_sys_packages, system_packages, ValidPositions(system_packages))
        /\ Len(tasks) = Len(valid_sys_packages)
        /\ \A t \in Frames : tasks[t].name = valid_sys_packages[t]
        /\ IsSubseq(missing_sys, valid_sys_packages)
        /\ IsSubseq(missing_py, valid_py_packages)
        /\ pc = "done" =>
              /\ Partitioned(system_packages, valid_sys_packages, invalid_sys)
              /\ Partitioned(python_packages, valid_py_packages, invalid_py)
              /\ \A t \in Frames : tasks[t].pc \in {"done", "raised"}
              /\ \A t \in Frames : procs[t][1].st # "none"
              /\ Len(py_results) = Len(valid_py_packages)

C13_Witness ==
    /\ call = "verify" /\ pc = "done"
    /\ system_packages = <<Str(<<"g", "3">>), Str(<<"g", "3">>)>>
    /\ procs[1][1].n = 1 /\ procs[2][1].n = 1
    /\ procs[1][1].rc = 0 /\ procs[2][1].rc = 1
    /\ missing_sys = <<Str(<<"g", "3">>)>>

\* the check of frame u can take its next step now
CanStep(u) ==
    ENABLED (\/ CheckEnter(u)
             \/ Spawn(u)
             \/ \E rc \in ExitCodes : WaitExit(u, rc)
             \/ WaitTimeout(u))

\* C14: in verify_dependencies, while the child of one check has not answered
\* yet and other checks have not ended, one of those can take its next step
\* (and so all of them can start and complete before the timeout of the
\* first): the checks of a batch do not wait for each other, in either class
C14_HangDoesNotStall ==
    (call = "verify" /\ pc = "sys") =>
        \A t \in Frames :
            (/\ tasks[t].pc = "wait"
             /\ \E u \in Frames : u # t /\ tasks[u].pc \notin {"done", "raised"})
                => \E u \in Frames : u # t /\ CanStep(u)

\* C15: check_python_package returns True exactly when find_spec finds a
\* spec for the trimmed name, False when it finds none, and False, not an
\* exception, when find_spec raises; it creates no child process
C15_PythonVerdict ==
    call = "pycheck" =>
        /\ ret # "raised"
        /\ ret = "True" <=> lookup = "spec"
        /\ lookup # "spec" => ret = "False"
        /\ tasks = <<>> /\ procs = <<>>

\* the second call of a pair has returned
SecondReturned == call = "verify" /\ pc = "done" /\ prev # NoPrev
FourLists == <<missing_sys, missing_py, invalid_sys, invalid_py>>
\* the package database and the module lookup answered alike in both calls,
\* wherever they answered in both
SameAnswers ==
    /\ \A t \in Frames, b \in BackendIds :
          (procs[t][b].st = "exited" /\ prev.procs[t][b].st = "exited")
              => procs[t][b].rc = prev.procs[t][b].rc
    /\ py_results = prev.py_results

Disjoint(xs, ys) == Elems(xs) \cap Elems(ys) = {}

\* C17 as stated: no name is in more than one of the four lists of a report
C17_Original ==
    call = "verify" =>
        /\ Disjoint(missing_sys, missing_py)
        /\ Disjoint(missing_sys, invalid_sys)
        /\ Disjoint(missing_sys, invalid_py)
        /\ Disjoint(missing_py, invalid_sys)
        /\ Disjoint(missing_py, invalid_py)
        /\ Disjoint(invalid_sys, invalid_py)

\* C17 as amended: no name is in a missing list and in an invalid list
\* (the two missing lists may share a name, and so may the two invalid lists)
C17_MissingDisjointFromInvalid ==
    call = "verify" =>
        /\ Disjoint(missing_sys, invalid_sys)
        /\ Disjoint(missing_sys, invalid_py)
        /\ Disjoint(missing_py, invalid_sys)
        /\ Disjoint(missing_py, invalid_py)

C17_Witness ==
    /\ call = "verify" /\ pc = "done"
    /\ system_packages = <<Str(<<"g", "3">>)>>
    /\ python_packages = <<Str(<<"g", ";">>)>>
    /\ missing_sys = <<Str(<<"g", "3">>)>>
    /\ invalid_py = <<Str(<<"g", ";">>)>>

\* the executables in the order in which check_system_package tries them
ProbeOrder == <<"dpkg", "rpm", "apk", "yum">>
\* the child processes check t has created
Spawned(t) == {b \in BackendIds : procs[t][b].n > 0}

\* C18: a call of check_system_package tries dpkg, rpm, apk, yum in this
\* order: a backend is tried only after every backend before it was found
\* unavailable, no backend is tried twice, each try creates at most one child
\* process, of that backend's executable, and a check creates at most four
C18_FixedOrderNoRetry ==
    \A t \in Frames :
        /\ \A b \in BackendIds :
              procs[t][b].st # "none" =>
                  /\ procs[t][b].argv.exe = ProbeOrder[b]
                  /\ \A c \in 1..(b - 1) : Unavailable(procs[t][c])
        /\ \A b \in BackendIds :
              /\ procs[t][b].n <= 1
              /\ procs[t][b].n = 1 <=> procs[t][b].st \in {"running", "exited", "killed"}
        /\ Cardinality(Spawned(t)) <= 4
        /\ tasks[t].pc \in {"spawn", "wait"} =>
              /\ \A c \in 1..(tasks[t].b - 1) : Unavailable(procs[t][c])
              /\ NoneAfter(t, tasks[t].b)

C18_Witness ==
    \E t \in Frames :
        /\ tasks[t].pc = "done"
        /\ procs[t][1].st = "notfound" /\ procs[t][2].timedout
        /\ procs[t][3].timedout /\ procs[t][4].st = "exited"
        /\ Spawned(t) = {2, 3, 4}

\* C19: every call of verify_dependencies comes to an end, also when probes
\* hang until their timeout, and it ends with every check having returned a
\* verdict and with the report printed
C19_EventuallyReports ==
    /\ (call = "verify") ~> (call = "idle")
    /\ [](\A t \in Frames : tasks[t].pc # "raised")
    /\ [][(call = "verify" /\ call' = "idle") => (pc = "done" /\ out # <<>>)]_vars

\* the printed lines that begin with one of tags
LinesOf(tags) == {i \in 1..Len(out) : out[i].line \in tags}
\* the one status line of a kind: the missing names, or the confirmation
StatusLine(missingTag, allTag, missing) ==
    /\ Cardinality(LinesOf({missingTag, allTag})) = 1
    /\ \A i \in LinesOf({missingTag, allTag}) :
          IF missing # <<>>
          THEN out[i].line = missingTag /\ out[i].names = missing
          ELSE out[i].line = allTag
\* the names of the list that the validator rejects
Rejected(names) == (1..Len(names)) \ ValidPositions(names)

\* C20: the summary printed by verify_dependencies has one status line for
\* the system packages and one for the Python packages: the line naming the
\* missing packages when there are any, else the line confirming that all are
\* installed; and it has the line counting the skipped invalid names exactly
\* when a name of either list was rejected
C20_SummaryLines ==
    (call = "verify" /\ pc = "done") =>
        /\ StatusLine("Missing system packages", "All system packages installed",
                      missing_sys)
        /\ StatusLine("Missing Python packages", "All Python packages installed",
                      missing_py)
        /\ Cardinality(LinesOf({"Skipped invalid package names"})) =
              IF Rejected(system_packages) # {} \/ Rejected(python_packages) # {}
              THEN 1 ELSE 0
        /\ \A i \in LinesOf({"Skipped invalid package names"}) :
              out[i].count = Cardinality(Rejected(system_packages))
                               + Cardinality(Rejected(python_packages))

C20_Witness ==
    /\ call = "verify" /\ pc = "done"
    /\ system_packages = <<Str(<<"g", "3">>), Str(<<"g", ";">>)>>
    /\ missing_sys = <<Str(<<"g", "3">>)>>
    /\ out = << Line("Missing system packages", missing_sys, 0),
                Line("All Python packages installed", <<>>, 0),
                Line("Skipping already installed packages", <<>>, 0),
                Line("Skipped invalid package names", <<>>, 1) >>

\* how the probe of a backend went: not made, exit 0, exit nonzero, executable
\* not found, timeout; or an error that is none of these
ProbeBehaviour(p) ==
    IF p.timedout THEN "timeout"
    ELSE IF p.st = "exited" THEN (IF p.rc = 0 THEN "exit 0" ELSE "exit nonzero")
    ELSE IF p.st = "notfound" THEN "not found"
    ELSE IF p.st = "none" THEN "not made"
    ELSE "other"
\* every probe of the call went in one of the four ways of the claim
FourWays ==
    \A t \in Frames, b \in BackendIds :
        ProbeBehaviour(procs[t][b]) \in
            {"not made", "exit 0", "exit nonzero", "not found", "timeout"}
\* the package of frame t counts as installed by the behaviour of its probes:
\* the first backend that was there and answered in time said exit 0
InstalledBy(t) ==
    \E b \in BackendIds :
        /\ ProbeBehaviour(procs[t][b]) = "exit 0"
        /\ \A c \in 1..(b - 1) : ProbeBehaviour(procs[t][c]) \in {"not found", "timeout"}
\* the names of an argument as the caller gave them
Given(x) == IF x.kind = "list" THEN x.items ELSE <<>>
\* the valid names of an argument, in its order
ValidGiven(x) == NamesAt(Given(x), ValidPositions(Given(x)), Len(Given(x)))
\* the four lists as the arguments, the behaviour of the probes and the
\* answers of the module lookup give them; the class that serves the call and
\* the interleaving of its checks are not looked at
ListsBy(sp, pp) ==
    << NamesAt(ValidGiven(sp), {t \in Frames : ~InstalledBy(t)}, Len(ValidGiven(sp))),
       NamesAt(ValidGiven(pp),
               {i \in 1..Len(py_results) : py_results[i] = "False"}, Len(ValidGiven(pp))),
       NamesAt(Given(sp), Rejected(Given(sp)), Len(Given(sp))),
       NamesAt(Given(pp), Rejected(Given(pp)), Len(Given(pp))) >>

\* C21: when a call of verify_dependencies of either class has returned and
\* each of its probes went in one of the four ways (exit 0, exit nonzero,
\* executable not found, timeout), the missing and invalid lists are what the
\* arguments and the behaviour of the probes and lookups give, in the order of
\* the arguments: the same for the synchronous and the asynchronous class,
\* and for every interleaving of the asynchronous checks
C21_SameListsInBothClasses ==
    (pc = "done" /\ call = "verify" /\ FourWays) =>
        /\ Len(tasks) = Len(ValidGiven(args[1]))
        /\ Len(py_results) = Len(ValidGiven(args[2]))
        /\ FourLists = ListsBy(args[1], args[2])

\* the asynchronous class with two checks: the first finds nothing after a
\* timeout and a nonzero exit, the second finds its package
C21_Witness ==
    /\ call = "verify" /\ mode = "async" /\ pc = "done"
    /\ args[1] = List(<<Str(<<"g", "3">>), Str(<<" ", "g", "\n">>)>>)
    /\ ProbeBehaviour(procs[1][1]) = "timeout"
    /\ ProbeBehaviour(procs[1][2]) = "exit nonzero"
    /\ ProbeBehaviour(procs[2][1]) = "exit 0"
    /\ missing_sys = <<Str(<<"g", "3">>)>>

\* the characters of s are all from the class of the pattern
OnlyNameChars(s) == Len(s) > 0 /\ \A i \in 1..Len(s) : s[i] \in NameChars
\* frame t has handed an argument vector to a backend (the child was
\* started, or starting it was tried)
Handed(t, b) == procs[t][b].st # "none"

\* C22: the package argument of every child process a check_system_package
\* frame starts or tries to start is the name with its surrounding whitespace
\* removed and has only characters of [A-Za-z0-9._+-] (no whitespace and no
\* shell metacharacter), whatever value a direct caller hands over; a direct
\* call with a value that fails the validator starts no child and returns
\* False
C22_OnlySafeTrimmedNames ==
    /\ \A t \in Frames, b \in BackendIds :
          Handed(t, b) =>
              /\ procs[t][b].argv.pkg = strip(tasks[t].name.chars)
              /\ OnlyNameChars(procs[t][b].argv.pkg)
              /\ ~HasAny(procs[t][b].argv.pkg, Whitespace \cup ShellMeta)
    /\ (call = "check" /\ ~_validate_package_name(arg)) =>
          /\ \A b \in BackendIds : ~Handed(1, b) /\ procs[1][b].n = 0
          /\ ret \in {"none", "False"}
          /\ tasks[1].pc \in {"start", "done"}
          /\ tasks[1].pc = "done" => ret = "False"

\* a padded value was trimmed before it reached the backend
C22_Witness ==
    /\ call = "check" /\ arg = Str(<<" ", "g">>)
    /\ Handed(1, 1) /\ procs[1][1].argv.pkg = <<"g">> /\ procs[1][1].n = 1
    /\ ret = "True"
====
